---- MODULE Spec2Model ----
(***************************************************************************)
(* A model of ndfr-media-helper.c: the MPRIS bridge with the commands      *)
(* get, listen, play-pause, set-position and set-position-percent.         *)
(*                                                                         *)
(* C strings that the code takes apart (bus names, argv words) are         *)
(* sequences of tokens; the other strings (status, title, artist) are      *)
(* TLA+ strings.  Every value the session bus hands to the process (the    *)
(* ListNames reply, the properties a new proxy loads, the result of a      *)
(* method call) is an input drawn afresh at the call that receives it, so  *)
(* players may change between any two calls.                               *)
(***************************************************************************)
EXTENDS Integers, Sequences, FiniteSets, TLC

VARIABLES
    argv,           \* the command line after argv[0]: command and its arguments
    pc,             \* where the process is: "main", "aggregate", "timer", "exit", "crashed"
    result,         \* main's result (the exit code once pc = "exit")
    out,            \* the lines printed on stdout, oldest first
    calls,          \* the bus calls and property reads issued so far, oldest first
    listing,        \* the reply the last find_players got from ListNames
    dview,          \* what the proxies of the last find_players showed, per name
    players,        \* the list the last find_players returned
    todo,           \* get_players_json: the rest of the list, from the loop's l on
    json_str,       \* get_players_json: the GString being built
    snapshot,       \* the State Records the running get_players_json has appended
    aview,          \* what the proxies of the running get_players_json showed
    previous_json,  \* high_frequency_poll's static: <<>> is NULL, <<s>> holds s
    ticks,          \* per completed tick: the payload built and whether it was printed
    pview,          \* what the proxy of a seek handler showed: <<>> before, <<view>> after
    call_error      \* whether the PlayPause or Seek call, if one was made, failed

vars == <<argv, pc, result, out, calls, listing, dview, players, todo, json_str,
          snapshot, aview, previous_json, ticks, pview, call_error>>

----------------------------------------------------------------------------
(* Bounds of the model.                                                    *)

\* the longest ListNames reply explored
MaxNames == 3
\* the number of timer ticks explored in listen mode
MaxTicks == 3
\* gint64 / guint64 are modelled Width bits wide (64 in the build)
Width == 7

----------------------------------------------------------------------------
(* Strings and names.                                                      *)

\* the NULL pointer, where a const gchar* holds it
NULL == "<NULL>"

\* "org.mpris.MediaPlayer2."
PREFIX == <<"org", ".", "mpris", ".", "MediaPlayer2", ".">>

\* a faulty g_str_has_prefix that does not compare the last token of prefix
g_str_has_prefix_nodot(str, prefix) ==
    /\ Len(str) >= Len(prefix) - 1
    /\ SubSeq(str, 1, Len(prefix) - 1) = SubSeq(prefix, 1, Len(prefix) - 1)

g_str_has_prefix(str, prefix) ==
    /\ Len(str) >= Len(prefix)
    /\ SubSeq(str, 1, Len(prefix)) = prefix

\* player_name + strlen("org.mpris.MediaPlayer2.")
SkipPrefix(str, prefix) == SubSeq(str, Len(prefix) + 1, Len(str))

Vlc     == PREFIX \o <<"vlc">>
Spotify == PREFIX \o <<"spotify">>
Mpv     == PREFIX \o <<"mpv">>
\* registered names outside the namespace: the second lacks only the final dot
Notify  == <<"org", ".", "freedesktop", ".", "Notifications">>
Bare    == <<"org", ".", "mpris", ".", "MediaPlayer2">>

PlayerNames == {Vlc, Spotify, Mpv}
OtherNames  == {Notify, Bare}

Range(s) == {s[i] : i \in 1..Len(s)}

\* the sequences without repetition over S of length at most n
RECURSIVE Lists(_, _)
Lists(S, n) ==
    IF n = 0 THEN {<<>>}
    ELSE LET shorter == Lists(S, n - 1)
         IN  shorter \cup
             {Append(l, x) : l \in {k \in shorter : Len(k) = n - 1}, x \in S}

NoRepeat(l) == \A i, j \in 1..Len(l) : l[i] = l[j] => i = j

----------------------------------------------------------------------------
(* GVariant values.  type is the GVariant type string ("s", "x", "t", "b", *)
(* "as", "a{sv}"); "i" stands for any type the code does not expect.       *)
(* Absent is the NULL that g_dbus_proxy_get_cached_property returns.       *)

Absent      == [type |-> "absent", val |-> 0]
VStr(s)     == [type |-> "s", val |-> s]
VInt64(n)   == [type |-> "x", val |-> n]
VUInt64(n)  == [type |-> "t", val |-> n]
VBool(b)    == [type |-> "b", val |-> b]
VStrv(l)    == [type |-> "as", val |-> l]
VDict(d)    == [type |-> "a{sv}", val |-> d]
VOther      == [type |-> "i", val |-> 1]

g_variant_is_of_type(v, t) == v.type = t

\* g_variant_get_string: NULL (g_return_val_if_fail) for a value that is no string
g_variant_get_string(v) == IF v.type = "s" THEN v.val ELSE NULL

\* g_variant_get_boolean: FALSE (g_return_val_if_fail) for a value that is no boolean
g_variant_get_boolean(v) == IF v.type = "b" THEN v.val ELSE FALSE

\* (gint64) of a guint64: two's complement, Width bits
ToInt64(u) == IF u >= 2 ^ (Width - 1) THEN u - 2 ^ Width ELSE u

INT64_MAX == 2 ^ (Width - 1) - 1
INT64_MIN == 0 - 2 ^ (Width - 1)
UINT64_MAX == 2 ^ Width - 1

----------------------------------------------------------------------------
(* The record of one bus call or property read, for the log `calls`.       *)

Call(m, dest, prop, value) == [call |-> m, dest |-> dest, prop |-> prop, value |-> value]
ListNamesCall        == Call("ListNames", <<>>, "", 0)
ProxyNew(name)       == Call("ProxyNew", name, "", 0)
GetProperty(name, p) == Call("GetProperty", name, p, 0)
PlayPauseCall(name)  == Call("PlayPause", name, "", 0)
SeekCall(name, off)  == Call("Seek", name, "", off)

----------------------------------------------------------------------------
(* find_players.  reply is what ListNames returned, view[name] what the    *)
(* proxy opened for name shows, trap whether strcmp on a NULL status       *)
(* (undefined behaviour) ends the process.                                 *)

FindState0 == [playing |-> <<>>, paused |-> <<>>,
               calls |-> <<ListNamesCall>>, crashed |-> FALSE]

\* lines 49-61: classify one player by the status its proxy shows
Classify(st, name, proxy, trap) ==
    LET st1 == [st EXCEPT !.calls = Append(@, GetProperty(name, "PlaybackStatus"))]
        status_variant == proxy.PlaybackStatus
        status == g_variant_get_string(status_variant)
    IN  IF status_variant.type = "absent" THEN st1
        ELSE IF status = NULL THEN [st1 EXCEPT !.crashed = trap]
        ELSE IF status = "Playing" THEN [st1 EXCEPT !.playing = Append(@, name)]
        ELSE IF status = "Paused" THEN [st1 EXCEPT !.paused = Append(@, name)]
        ELSE st1

\* a faulty line 37 that accepts the namespace without its final dot
IsPlayerNameLoose(name) == g_str_has_prefix_nodot(name, PREFIX)

\* line 37
IsPlayerName(name) == g_str_has_prefix(name, PREFIX)

\* lines 36-64: the loop over names, from index i
RECURSIVE find_players_loop(_, _, _, _, _)
find_players_loop(names, i, view, trap, st) ==
    IF i > Len(names) \/ st.crashed THEN st
    ELSE LET name == names[i]
             proxy == view[name]
             st1 == [st EXCEPT !.calls = Append(@, ProxyNew(name))]
         IN  IF ~IsPlayerName(name)
             THEN find_players_loop(names, i + 1, view, trap, st)
             ELSE IF ~proxy.ok
             THEN find_players_loop(names, i + 1, view, trap, st1)
             ELSE find_players_loop(names, i + 1, view, trap,
                                    Classify(st1, name, proxy, trap))

\* a faulty line 67 with the two lists in the other order
g_list_concat_swapped(list1, list2) == list2 \o list1

\* line 67
g_list_concat(list1, list2) == list1 \o list2

\* a faulty find_players without the check of lines 24-28: it reads the NULL reply
find_players_unchecked(reply, view, trap) ==
    LET st == find_players_loop(reply.names, 1, view, trap, FindState0)
    IN  [crashed |-> st.crashed \/ reply.error,
         players |-> g_list_concat(st.playing, st.paused),
         calls   |-> st.calls]

\* lines 14-70, the whole function: [crashed, players, calls]
find_players(reply, view, trap) ==
    IF reply.error
    THEN [crashed |-> FALSE, players |-> <<>>, calls |-> <<ListNamesCall>>]
    ELSE LET st == find_players_loop(reply.names, 1, view, trap, FindState0)
         IN  [crashed |-> st.crashed,
              players |-> g_list_concat(st.playing, st.paused),
              calls   |-> st.calls]

----------------------------------------------------------------------------
(* get_players_json: the State Record of one player (lines 97-150) and its *)
(* text (lines 152-153).                                                   *)

MetaKeys == {"mpris:length", "xesam:title", "xesam:artist"}

\* lines 110-114 and 126-130: a signed or unsigned 64-bit value, else the default 0
DecodeInt64(v) ==
    IF g_variant_is_of_type(v, "x") THEN v.val
    ELSE IF g_variant_is_of_type(v, "t") THEN ToInt64(v.val)
    ELSE 0

\* a faulty status that keeps the value discovery saw
ReadStatusStale(proxy) == "Playing"

\* lines 97 and 102-106
ReadStatus(proxy) ==
    IF proxy.PlaybackStatus.type = "absent" THEN ""
    ELSE g_variant_get_string(proxy.PlaybackStatus)

\* lines 118-146: the entry of Metadata under key, Absent when there is none
MetaEntry(proxy, key) ==
    IF proxy.Metadata.type = "a{sv}" THEN proxy.Metadata.val[key] ELSE Absent

\* lines 131-132
ReadTitle(proxy) ==
    LET value == MetaEntry(proxy, "xesam:title")
    IN  IF value.type = "absent" THEN "" ELSE g_variant_get_string(value)

\* lines 133-140 and `artist ? artist : ""` of line 153
ReadArtist(proxy) ==
    LET value == MetaEntry(proxy, "xesam:artist")
    IN  IF g_variant_is_of_type(value, "as") /\ Len(value.val) > 0
        THEN value.val[1] ELSE ""

\* lines 148-150
IconName(player_name) ==
    IF g_str_has_prefix(player_name, PREFIX)
    THEN SkipPrefix(player_name, PREFIX) ELSE <<>>

Aggregate(player_name, proxy) ==
    [player_id |-> player_name,
     status    |-> ReadStatus(proxy),
     position  |-> DecodeInt64(proxy.Position),
     length    |-> DecodeInt64(MetaEntry(proxy, "mpris:length")),
     title     |-> ReadTitle(proxy),
     artist    |-> ReadArtist(proxy),
     icon      |-> IconName(player_name)]

\* what the iteration does that is undefined: %s of a NULL string (lines 152-153),
\* iterating a Metadata value that is no dictionary (lines 123-124)
AggregateUndefined(proxy) ==
    \/ ReadStatus(proxy) = NULL
    \/ ReadTitle(proxy) = NULL
    \/ proxy.Metadata.type \notin {"absent", "a{sv}"}

\* %s: glibc prints (null) for NULL
PrintS(s) == IF s = NULL THEN "(null)" ELSE s

\* lines 152-153
RecordText(r) ==
    <<"{", "player_id:">> \o r.player_id
    \o <<"status:", PrintS(r.status),
         "position:", ToString(r.position),
         "length:", ToString(r.length),
         "title:", PrintS(r.title),
         "artist:", r.artist,
         "icon:">> \o r.icon \o <<"}">>

\* the properties get_players_json reads from a proxy
PlayerView(status, position, metadata) ==
    [ok |-> TRUE, PlaybackStatus |-> status, Position |-> position, Metadata |-> metadata]
NoProxy == [ok |-> FALSE, PlaybackStatus |-> Absent, Position |-> Absent, Metadata |-> Absent]

----------------------------------------------------------------------------
(* What the bus may answer, per command.  The replies to play-pause carry  *)
(* the widest name lists; get and the seek commands carry the widest       *)
(* property values.                                                        *)

Universe(cmd) ==
    CASE cmd = "play-pause" -> PlayerNames \cup OtherNames
      [] cmd = "listen"     -> {Vlc, Notify}
      [] OTHER              -> {Vlc, Spotify}

Replies(cmd) ==
    {[error |-> TRUE, names |-> <<>>]} \cup
    {[error |-> FALSE, names |-> l] :
        l \in {k \in Lists(Universe(cmd), MaxNames) : NoRepeat(k)}}

StatusVariants(cmd) ==
    CASE cmd = "listen" -> {Absent, VStr("Playing"), VStr("Paused"), VOther}
      [] cmd \in {"set-position", "set-position-percent"} ->
            {VStr("Playing"), VStr("Paused"), VStr("Stopped"), VOther}
      [] OTHER -> {Absent, VStr("Playing"), VStr("Paused"), VStr("Stopped"),
                   VStr("Buffering"), VOther}

\* what the proxy find_players opens for one name may show
DiscoveryViews(cmd) ==
    {[ok |-> FALSE, PlaybackStatus |-> Absent]} \cup
    {[ok |-> TRUE, PlaybackStatus |-> s] : s \in StatusVariants(cmd)}

\* a name outside the namespace would answer, were it asked
DViews(cmd, names) ==
    {[n \in Range(names) |->
        IF n \in PlayerNames THEN f[n]
        ELSE [ok |-> TRUE, PlaybackStatus |-> VStr("Playing")]] :
     f \in [Range(names) \cap PlayerNames -> DiscoveryViews(cmd)]}

Int64Variants == {Absent, VInt64(5), VInt64(0 - 3), VUInt64(UINT64_MAX), VOther}

TitleVariants == {Absent, VStr("T"), VOther}

ArtistVariants == {Absent, VStrv(<<>>), VStrv(<<"A", "B">>), VStr("A")}

MetaDict(length, title, artist) ==
    VDict([k \in MetaKeys |->
             CASE k = "mpris:length" -> length
               [] k = "xesam:title"  -> title
               [] OTHER              -> artist])

MetadataVariants ==
    {Absent, VOther} \cup
    {MetaDict(l, t, a) : l \in Int64Variants, t \in TitleVariants, a \in ArtistVariants}

\* what the proxy get_players_json opens for one player may show
AViews(cmd, name) ==
    {NoProxy} \cup
    IF cmd = "listen"
    THEN {PlayerView(s, p, Absent) :
            s \in {VStr("Playing"), VStr("Paused")}, p \in {Absent, VInt64(5)}}
    ELSE IF name = Vlc
    THEN {PlayerView(s, p, m) : s \in StatusVariants(cmd), p \in Int64Variants,
                                m \in MetadataVariants}
    ELSE {PlayerView(s, Absent, Absent) : s \in StatusVariants(cmd)}

----------------------------------------------------------------------------
(* The initial state: main has the bus connection and is about to         *)
(* dispatch on argv[1].                                                    *)

PosStrs == {<<"8">>, <<"x">>}
PctStrs == {<<"5", "0">>, <<"5", "8">>, <<"-", "1">>, <<"1", "0", "1">>,
            <<"1", "0", "0">>, <<"0">>, <<"1", "0", "0", ".", "5">>}

ArgvSet ==
    {[command |-> c, args |-> <<>>] :
        c \in {"get", "listen", "play-pause", "set-position", "set-position-percent"}}
    \cup {[command |-> "play-pause", args |-> <<n>>] : n \in {Vlc, Notify}}
    \cup {[command |-> "set-position", args |-> a] :
            a \in {<<p>> : p \in PosStrs} \cup {<<Vlc, p>> : p \in PosStrs}}
    \cup {[command |-> "set-position-percent", args |-> a] :
            a \in {<<p>> : p \in PctStrs} \cup {<<Vlc, p>> : p \in PctStrs}}

\* argc, counting argv[0] and the command
argc == 2 + Len(argv.args)

Init ==
    /\ argv \in ArgvSet
    /\ pc = "main"
    /\ result = 1
    /\ out = <<>>
    /\ calls = <<>>
    /\ listing = [error |-> FALSE, names |-> <<>>]
    /\ dview = <<>>
    /\ players = <<>>
    /\ todo = <<>>
    /\ json_str = <<>>
    /\ snapshot = <<>>
    /\ aview = <<>>
    /\ previous_json = <<>>
    /\ ticks = <<>>
    /\ pview = <<>>
    /\ call_error = FALSE

----------------------------------------------------------------------------
(* get and listen.                                                         *)

\* a faulty line 256 that prints at every tick
ChangedAlways(prev, current_json) == TRUE

\* line 256: whether high_frequency_poll prints current_json
Changed(prev, current_json) == prev = <<>> \/ prev[1] # current_json

\* lines 171-174 and 301, 352: handle_get prints the payload and main returns 0
ReturnToGet(json) ==
    /\ out' = Append(out, json)
    /\ result' = 0
    /\ pc' = "exit"
    /\ UNCHANGED <<previous_json, ticks>>

\* a faulty high_frequency_poll that prints a changed payload and keeps the
\* first one it printed
ReturnToPollStale(json) ==
    LET emit == Changed(previous_json, json)
    IN  /\ out' = IF emit THEN Append(out, json) ELSE out
        /\ previous_json' = IF previous_json = <<>> THEN <<json>> ELSE previous_json
        /\ ticks' = Append(ticks, [json |-> json, emitted |-> emit])
        /\ pc' = "timer"
        /\ UNCHANGED result

\* lines 256-267: high_frequency_poll prints the payload if it changed, keeps
\* what it printed and asks to be called again
ReturnToPoll(json) ==
    LET emit == Changed(previous_json, json)
    IN  /\ out' = IF emit THEN Append(out, json) ELSE out
        /\ previous_json' = IF emit THEN <<json>> ELSE previous_json
        /\ ticks' = Append(ticks, [json |-> json, emitted |-> emit])
        /\ pc' = "timer"
        /\ UNCHANGED result

\* lines 80 and 165: get_players_json returns json to the caller it has
Return(json) ==
    IF argv.command = "get" THEN ReturnToGet(json) ELSE ReturnToPoll(json)

\* a faulty empty payload without line 78
EmptyJsonUnclosed == <<"[">>

\* lines 74 and 78: "[" and then "]", the payload of an empty list
EmptyJson == <<"[", "]">>

\* lines 74-81: get_players_json up to its loop
Begin ==
    \E reply \in Replies(argv.command) :
      \E view \in DViews(argv.command, reply.names) :
        \E trap \in BOOLEAN :
          LET r == find_players(reply, view, trap)
          IN  /\ listing' = reply
              /\ dview' = view
              /\ players' = r.players
              /\ calls' = calls \o r.calls
              /\ snapshot' = <<>>
              /\ aview' = <<>>
              /\ todo' = r.players
              /\ IF r.crashed
                 THEN /\ pc' = "crashed"
                      /\ json_str' = <<"[">>
                      /\ UNCHANGED <<out, result, previous_json, ticks>>
                 ELSE IF r.players = <<>>
                 THEN /\ json_str' = EmptyJson
                      /\ Return(EmptyJson)
                 ELSE /\ json_str' = <<"[">>
                      /\ pc' = "aggregate"
                      /\ UNCHANGED <<out, result, previous_json, ticks>>
              /\ UNCHANGED <<argv, pview, call_error>>

\* lines 168-175 and 300-301
handle_get ==
    /\ pc = "main"
    /\ argv.command = "get"
    /\ Begin

\* lines 270-277 and 302-303: the timer is set and the main loop runs
handle_listen ==
    /\ pc = "main"
    /\ argv.command = "listen"
    /\ pc' = "timer"
    /\ UNCHANGED <<argv, result, out, calls, listing, dview, players, todo, json_str,
                   snapshot, aview, previous_json, ticks, pview, call_error>>

\* lines 250-254: the timer fires
high_frequency_poll ==
    /\ pc = "timer"
    /\ Len(ticks) < MaxTicks
    /\ Begin

\* lines 83-161: what one iteration appends to json_str
LoopBody(json, player_name, proxy, has_next) ==
    IF ~proxy.ok THEN json
    ELSE json \o RecordText(Aggregate(player_name, proxy))
              \o (IF has_next THEN <<",">> ELSE <<>>)

\* the property reads of one iteration
AggregateReads(name) ==
    <<GetProperty(name, "PlaybackStatus"), GetProperty(name, "Position"),
      GetProperty(name, "Metadata")>>

\* lines 83-165: one iteration of the loop and, after the last, the rest of
\* get_players_json and of its caller
get_players_json_loop ==
    /\ pc = "aggregate"
    /\ todo # <<>>
    /\ \E proxy \in AViews(argv.command, Head(todo)) :
         \E trap \in BOOLEAN :
           LET name == Head(todo)
               next == Tail(todo)
               json == LoopBody(json_str, name, proxy, next # <<>>)
           IN  /\ aview' = Append(aview, proxy)
               /\ calls' = calls \o <<ProxyNew(name)>>
                                 \o (IF proxy.ok THEN AggregateReads(name) ELSE <<>>)
               /\ IF proxy.ok /\ AggregateUndefined(proxy) /\ trap
                  THEN /\ pc' = "crashed"
                       /\ UNCHANGED <<todo, json_str, snapshot, out, result,
                                      previous_json, ticks>>
                  ELSE /\ snapshot' = IF proxy.ok
                                      THEN Append(snapshot, Aggregate(name, proxy))
                                      ELSE snapshot
                       /\ todo' = next
                       /\ IF next = <<>>
                          THEN /\ json_str' = json \o <<"]">>
                               /\ Return(json \o <<"]">>)
                          ELSE /\ json_str' = json
                               /\ pc' = "aggregate"
                               /\ UNCHANGED <<out, result, previous_json, ticks>>
    /\ UNCHANGED <<argv, listing, dview, players, pview, call_error>>

----------------------------------------------------------------------------
(* atoll and atof, on the words of the command line.                       *)

Digits == <<"0", "1", "2", "3", "4", "5", "6", "7", "8", "9">>
IsDigit(c) == \E d \in 1..10 : Digits[d] = c
DigitVal(c) == (CHOOSE d \in 1..10 : Digits[d] = c) - 1

\* the value of the run of digits of str from index i on, after acc
RECURSIVE DigitRun(_, _, _)
DigitRun(str, i, acc) ==
    IF i <= Len(str) /\ IsDigit(str[i])
    THEN DigitRun(str, i + 1, 10 * acc + DigitVal(str[i]))
    ELSE acc

\* the index after the run of digits of str from index i on
RECURSIVE DigitEnd(_, _)
DigitEnd(str, i) ==
    IF i <= Len(str) /\ IsDigit(str[i]) THEN DigitEnd(str, i + 1) ELSE i

Signed(str) == Len(str) > 0 /\ str[1] \in {"-", "+"}
Sign(str) == IF Len(str) > 0 /\ str[1] = "-" THEN 0 - 1 ELSE 1
FirstDigit(str) == IF Signed(str) THEN 2 ELSE 1

\* atoll: an optional sign and the leading digits; 0 when there are none
atoll(str) == Sign(str) * DigitRun(str, FirstDigit(str), 0)

\* ten times atof, for a decimal with at most one digit after the point
atof_tenths(str) ==
    LET dot == DigitEnd(str, FirstDigit(str))
        frac == IF dot < Len(str) /\ str[dot] = "." /\ IsDigit(str[dot + 1])
                THEN DigitVal(str[dot + 1]) ELSE 0
    IN  Sign(str) * (10 * DigitRun(str, FirstDigit(str), 0) + frac)

----------------------------------------------------------------------------
(* play-pause, set-position, set-position-percent.                         *)

\* gint64 arithmetic wraps at Width bits
Wrap64(n) == ((n + 2 ^ (Width - 1)) % (2 ^ Width)) - 2 ^ (Width - 1)

\* g_variant_get_int64: 0 (g_return_val_if_fail) for a value that is no int64
g_variant_get_int64(v) == IF v.type = "x" THEN v.val ELSE 0

\* g_variant_lookup_value(metadata, "mpris:length", G_VARIANT_TYPE_INT64)
LookupLength(metadata) ==
    IF metadata.type = "a{sv}" /\ metadata.val["mpris:length"].type = "x"
    THEN metadata.val["mpris:length"] ELSE Absent

\* the properties a seek handler reads from its proxy
SeekView(can_seek, position, metadata) ==
    [ok |-> TRUE, CanSeek |-> can_seek, Position |-> position, Metadata |-> metadata]
NoSeekProxy == [ok |-> FALSE, CanSeek |-> Absent, Position |-> Absent, Metadata |-> Absent]

CanSeekVariants == {Absent, VBool(TRUE), VBool(FALSE), VOther}
PositionVariants == {Absent, VInt64(5), VUInt64(7), VOther}
LengthVariants == {Absent, VInt64(20), VInt64(50), VInt64(0), VUInt64(20)}

SeekViews(cmd) ==
    {NoSeekProxy} \cup
    {SeekView(c, p, m) : c \in CanSeekVariants, p \in PositionVariants,
        m \in IF cmd = "set-position" THEN {Absent}
              ELSE {Absent, VOther} \cup
                   {MetaDict(l, Absent, Absent) : l \in LengthVariants}}

\* a faulty check that takes any CanSeek value for true
CanSeekAnyValue(proxy) == proxy.CanSeek.type # "absent"

\* lines 193-194 and 219-220
CanSeek(proxy) ==
    proxy.CanSeek.type # "absent" /\ g_variant_get_boolean(proxy.CanSeek)

\* a faulty handle_play_pause that returns 0 without the call of lines 180-181
handle_play_pause_nocall(player_id) ==
    IF player_id = <<>> THEN [result |-> 1, calls |-> <<>>]
    ELSE [result |-> 0, calls |-> <<>>]

\* lines 177-183; player_id is <<>> for NULL, else <<name>>
handle_play_pause(player_id) ==
    IF player_id = <<>> THEN [result |-> 1, calls |-> <<>>]
    ELSE [result |-> 0, calls |-> <<PlayPauseCall(player_id[1])>>]

\* lines 185-209
handle_set_position(player_id, pos_str, proxy, seek_error) ==
    LET c0 == <<ProxyNew(player_id)>>
        c1 == Append(c0, GetProperty(player_id, "CanSeek"))
        c2 == Append(c1, GetProperty(player_id, "Position"))
        current_pos == g_variant_get_int64(proxy.Position)
        offset == Wrap64(atoll(pos_str) - current_pos)
    IN  IF ~proxy.ok THEN [result |-> 1, calls |-> c0]
        ELSE IF ~CanSeek(proxy) THEN [result |-> 1, calls |-> c1]
        ELSE IF proxy.Position.type = "absent" THEN [result |-> 1, calls |-> c2]
        ELSE [result |-> IF seek_error THEN 1 ELSE 0,
              calls  |-> Append(c2, SeekCall(player_id, offset))]

\* a faulty line 227 that rejects nothing
OutOfRangeNever(tenths) == FALSE

\* line 227
OutOfRange(tenths) == tenths < 0 \/ tenths > 1000

\* the percentages (in tenths) and lengths under 128 for which the IEEE-754
\* double (percentage / 100.0) * length falls just below the exact product,
\* so that its integer part is one less: 58.0 / 100.0 * 50.0 is 28.999...
DoubleShortfall ==
    {<<580, 50>>, <<700, 90>>, <<290, 100>>, <<570, 100>>, <<580, 100>>,
     <<56, 125>>, <<112, 125>>, <<224, 125>>, <<232, 125>>, <<328, 125>>,
     <<448, 125>>, <<464, 125>>, <<656, 125>>, <<776, 125>>, <<808, 125>>,
     <<896, 125>>, <<928, 125>>}

\* line 240: (gint64)((percentage / 100.0) * (double)track_length), for
\* percentages in [0,100] and lengths in 1..127
DesiredPos(tenths, track_length) ==
    (tenths * track_length) \div 1000
    - (IF <<tenths, track_length>> \in DoubleShortfall THEN 1 ELSE 0)

\* lines 211-246
handle_set_position_percent(player_id, percent_str, proxy, seek_error) ==
    LET c0 == <<ProxyNew(player_id)>>
        c1 == Append(c0, GetProperty(player_id, "CanSeek"))
        c2 == Append(c1, GetProperty(player_id, "Metadata"))
        c3 == Append(c2, GetProperty(player_id, "Position"))
        percentage == atof_tenths(percent_str)
        length_variant == LookupLength(proxy.Metadata)
        track_length == g_variant_get_int64(length_variant)
        current_pos == g_variant_get_int64(proxy.Position)
        offset == Wrap64(DesiredPos(percentage, track_length) - current_pos)
    IN  IF ~proxy.ok THEN [result |-> 1, calls |-> c0]
        ELSE IF ~CanSeek(proxy) THEN [result |-> 1, calls |-> c1]
        ELSE IF OutOfRange(percentage) THEN [result |-> 1, calls |-> c1]
        ELSE IF proxy.Metadata.type = "absent" THEN [result |-> 1, calls |-> c2]
        ELSE IF length_variant.type = "absent" THEN [result |-> 1, calls |-> c2]
        ELSE IF track_length <= 0 THEN [result |-> 1, calls |-> c2]
        ELSE IF proxy.Position.type = "absent" THEN [result |-> 1, calls |-> c3]
        ELSE [result |-> IF seek_error THEN 1 ELSE 0,
              calls  |-> Append(c3, SeekCall(player_id, offset))]

\* whether the handler's run made the method call
MadeCall(h) == h.calls # <<>> /\ h.calls[Len(h.calls)].call \in {"PlayPause", "Seek"}

\* main returns with what the handler h did
Exit(h, proxy, error) ==
    /\ result' = h.result
    /\ calls' = calls \o h.calls
    /\ pview' = proxy
    /\ call_error' = (MadeCall(h) /\ error)
    /\ pc' = "exit"
    /\ UNCHANGED <<argv, out, todo, json_str, snapshot, aview, previous_json, ticks>>

\* a faulty choice of the target: the last of the list
players_data_last(list) == list[Len(list)]

\* lines 312, 329 and 341: players->data, the first element of the list
players_data(list) == list[1]

\* lines 316, 329 and 341: the handler of the command, on the first of the list
RunDefault(player_id, proxy, error) ==
    CASE argv.command = "play-pause" -> handle_play_pause(<<player_id>>)
      [] argv.command = "set-position" ->
            handle_set_position(player_id, argv.args[1], proxy[1], error)
      [] OTHER ->
            handle_set_position_percent(player_id, argv.args[1], proxy[1], error)

\* main's find_players for a command without a player id: the handler runs on
\* the first of the list, if there is one (lines 310-319, 327-333, 339-343)
Default(proxy, error) ==
    \E reply \in Replies(argv.command) :
      \E view \in DViews(argv.command, reply.names) :
        \E trap \in BOOLEAN :
          LET r == find_players(reply, view, trap)
              h == IF r.players # <<>> THEN RunDefault(players_data(r.players), proxy, error)
                   ELSE [result |-> 1, calls |-> <<>>]
          IN  /\ listing' = reply
              /\ dview' = view
              /\ players' = r.players
              /\ IF r.crashed
                 THEN /\ pc' = "crashed"
                      /\ calls' = calls \o r.calls
                      /\ UNCHANGED <<argv, result, out, todo, json_str, snapshot, aview,
                                     previous_json, ticks, pview, call_error>>
                 ELSE Exit([h EXCEPT !.calls = r.calls \o @],
                           IF r.players # <<>> THEN proxy ELSE <<>>, error)

Explicit(h, proxy, error) ==
    /\ Exit(h, proxy, error)
    /\ UNCHANGED <<listing, dview, players>>

\* lines 304-322
play_pause ==
    /\ pc = "main"
    /\ argv.command = "play-pause"
    /\ \E error \in BOOLEAN :
         \/ /\ argc > 2
            /\ Explicit(handle_play_pause(<<argv.args[1]>>), <<>>, error)
         \/ /\ argc <= 2
            /\ Default(<<>>, error)

\* lines 323-334
set_position ==
    /\ pc = "main"
    /\ argv.command = "set-position"
    /\ \E proxy \in SeekViews(argv.command) :
         \E error \in BOOLEAN :
           \/ /\ argc > 3
              /\ Explicit(handle_set_position(argv.args[1], argv.args[2], proxy, error),
                          <<proxy>>, error)
           \/ /\ argc = 3
              /\ Default(<<proxy>>, error)
           \/ /\ argc < 3
              /\ Explicit([result |-> 1, calls |-> <<>>], <<>>, FALSE)

\* lines 335-346
set_position_percent ==
    /\ pc = "main"
    /\ argv.command = "set-position-percent"
    /\ \E proxy \in SeekViews(argv.command) :
         \E error \in BOOLEAN :
           \/ /\ argc > 3
              /\ Explicit(handle_set_position_percent(argv.args[1], argv.args[2],
                                                      proxy, error),
                          <<proxy>>, error)
           \/ /\ argc = 3
              /\ Default(<<proxy>>, error)
           \/ /\ argc < 3
              /\ Explicit([result |-> 1, calls |-> <<>>], <<>>, FALSE)

Next ==
    \/ handle_get
    \/ handle_listen
    \/ high_frequency_poll
    \/ get_players_json_loop
    \/ play_pause
    \/ set_position
    \/ set_position_percent

Spec == Init /\ [][Next]_vars

\* the runs of the listen command
ListenInit == Init /\ argv.command = "listen"

ListenNext ==
    \/ handle_listen
    \/ high_frequency_poll
    \/ get_players_json_loop

\* lines 273-276: g_main_loop_run dispatches the 200 ms timer source again and
\* again, and a dispatched callback runs its loop to the end
Fairness ==
    /\ WF_vars(handle_listen)
    /\ WF_vars(high_frequency_poll)
    /\ WF_vars(get_players_json_loop)

ListenSpec == ListenInit /\ [][ListenNext]_vars /\ Fairness

----------------------------------------------------------------------------
(* Properties.                                                             *)

\* the payload printed last among the first i ticks of t: <<>> or <<payload>>
RECURSIVE LastEmitted(_, _)
LastEmitted(t, i) ==
    IF i = 0 THEN <<>>
    ELSE IF t[i].emitted THEN <<t[i].json>>
    ELSE LastEmitted(t, i - 1)

\* the payloads of the ticks of t that printed, in order
RECURSIVE Emissions(_)
Emissions(t) ==
    IF t = <<>> THEN <<>>
    ELSE IF Head(t).emitted THEN <<Head(t).json>> \o Emissions(Tail(t))
    ELSE Emissions(Tail(t))

\* C1: in listen mode the first tick prints its payload, a later tick prints
\* its payload exactly when it differs from the payload printed last, and
\* stdout holds the printed payloads in tick order.
C1_EmitOnChange ==
    argv.command = "listen" =>
        /\ \A i \in 1..Len(ticks) :
             ticks[i].emitted <=>
                 \/ i = 1
                 \/ LastEmitted(ticks, i - 1) # <<ticks[i].json>>
        /\ out = Emissions(ticks)

\* three ticks built A, A, B and stdout holds A, B
C1_Witness ==
    /\ argv.command = "listen"
    /\ Len(ticks) = 3
    /\ ticks[1].json = ticks[2].json
    /\ ticks[3].json # ticks[2].json
    /\ out = <<ticks[1].json, ticks[3].json>>

\* the status the discovery proxy of name n showed is the string s
Discovered(n, s) ==
    /\ n \in DOMAIN dview
    /\ dview[n].ok
    /\ dview[n].PlaybackStatus = VStr(s)

HasNamespacePrefix(n) ==
    /\ Len(n) >= Len(PREFIX)
    /\ \A i \in 1..Len(PREFIX) : n[i] = PREFIX[i]

\* C2: every name find_players returns begins with the namespace prefix, is
\* one of the listed names, and showed Playing or Paused to the proxy that
\* find_players opened for it.
C2_OnlyActivePlayers ==
    \A i \in 1..Len(players) :
        /\ HasNamespacePrefix(players[i])
        /\ players[i] \in Range(listing.names)
        /\ Discovered(players[i], "Playing") \/ Discovered(players[i], "Paused")

\* a list was returned while a name outside the namespace, a Stopped player
\* and a Playing player were registered
C2_Witness ==
    /\ pc = "exit"
    /\ Len(players) = 1
    /\ \E n \in Range(listing.names) : ~HasNamespacePrefix(n)
    /\ \E n \in Range(listing.names) : Discovered(n, "Stopped")

RECURSIVE Select(_, _)
Select(names, s) ==
    IF names = <<>> THEN <<>>
    ELSE IF HasNamespacePrefix(Head(names)) /\ Discovered(Head(names), s)
    THEN <<Head(names)>> \o Select(Tail(names), s)
    ELSE Select(Tail(names), s)

\* C3: the list find_players returns is the Playing players in the order of
\* the name listing followed by the Paused players in that order, each once.
C3_Ranking ==
    (pc # "crashed" /\ ~listing.error) =>
        /\ players = Select(listing.names, "Playing") \o Select(listing.names, "Paused")
        /\ NoRepeat(players)

\* P1 paused, P2 playing, P3 playing, listed in that order, rank as P2, P3, P1
C3_Witness ==
    /\ listing.names = <<Vlc, Spotify, Mpv>>
    /\ Discovered(Vlc, "Paused")
    /\ Discovered(Spotify, "Playing")
    /\ Discovered(Mpv, "Playing")
    /\ players = <<Spotify, Mpv, Vlc>>

\* C4: every State Record appended to a Snapshot has status Playing or
\* Paused, whatever the players do between discovery and aggregation.
C4_SnapshotStatusActive ==
    \A i \in 1..Len(snapshot) : snapshot[i].status \in {"Playing", "Paused"}

SeekCommand == argv.command \in {"set-position", "set-position-percent"}

\* a call of method m is in the log
Issued(m) == \E i \in 1..Len(calls) : calls[i].call = m

\* property p was read
WasRead(p) == \E i \in 1..Len(calls) : calls[i].call = "GetProperty" /\ calls[i].prop = p

\* the seek handler ran and its proxy showed CanSeek false or no CanSeek
CanSeekFalseOrAbsent ==
    /\ pview # <<>>
    /\ pview[1].ok
    /\ \/ pview[1].CanSeek.type = "absent"
       \/ pview[1].CanSeek.type = "b" /\ ~pview[1].CanSeek.val

\* C5: a seek command whose target shows CanSeek false or no CanSeek returns
\* 1 and issues no Seek call.
C5_NoSeekWithoutCanSeek ==
    (SeekCommand /\ pc = "exit" /\ CanSeekFalseOrAbsent) =>
        /\ result = 1
        /\ ~Issued("Seek")

\* set-position to a target whose Position is readable but whose CanSeek is false
C5_Witness ==
    /\ argv.command = "set-position"
    /\ pc = "exit"
    /\ CanSeekFalseOrAbsent
    /\ pview[1].CanSeek.type = "b"
    /\ pview[1].Position.type = "x"
    /\ result = 1

\* the percentage word of set-position-percent, when there is one
PercentArg == argv.args[Len(argv.args)]

PercentOutside ==
    /\ argv.command = "set-position-percent"
    /\ argc >= 3
    /\ atof_tenths(PercentArg) < 0 \/ atof_tenths(PercentArg) > 1000

\* C6 as stated: a percentage outside [0,100] fails with exit code 1 and
\* without any bus call.
C6_NoBusCallAtAll ==
    (PercentOutside /\ pc = "exit") => (result = 1 /\ calls = <<>>)

\* C6 as amended: a percentage outside [0,100] never issues Seek and never
\* reads Metadata or Position, and main returns 1; the name listing and the
\* discovery proxies (without a player id), and the target's proxy and its
\* CanSeek read, may come first.
C6_NoSeekOutsideRange ==
    PercentOutside =>
        /\ ~Issued("Seek")
        /\ ~WasRead("Metadata")
        /\ ~WasRead("Position")
        /\ \A i \in 1..Len(calls) :
             calls[i].call \in {"ListNames", "ProxyNew", "GetProperty"}
        /\ pc = "exit" => result = 1
        /\ (pc = "exit" /\ argc > 3) => Len(calls) <= 2

\* percentage 101 on a target that can seek and shows a length and a position
C6_Witness ==
    /\ PercentOutside
    /\ pc = "exit"
    /\ pview # <<>>
    /\ pview[1].ok
    /\ pview[1].CanSeek = VBool(TRUE)
    /\ LookupLength(pview[1].Metadata).type = "x"
    /\ pview[1].Position.type = "x"
    /\ WasRead("CanSeek")
    /\ result = 1

\* the views of the proxies get_players_json could open, in order
RECURSIVE OkViews(_)
OkViews(v) ==
    IF v = <<>> THEN <<>>
    ELSE IF Head(v).ok THEN <<Head(v)>> \o OkViews(Tail(v))
    ELSE OkViews(Tail(v))

\* the proxy shows no status, no position and no metadata entry
AllMissing(v) ==
    /\ v.PlaybackStatus.type = "absent"
    /\ v.Position.type = "absent"
    /\ \/ v.Metadata.type = "absent"
       \/ /\ v.Metadata.type = "a{sv}"
          /\ \A k \in MetaKeys : v.Metadata.val[k].type = "absent"

DefaultRecord(r, status) ==
    /\ r.title = ""
    /\ r.artist = ""
    /\ r.length = 0
    /\ r.position = 0
    /\ r.status = status
    /\ r.player_id = PREFIX \o r.icon
    /\ r.icon # <<>>

PlayPauseDone == argv.command = "play-pause" /\ pc = "exit"

\* C8 as stated: play-pause exits 0 only when the toggle succeeded, and 1
\* when there is no target or the PlayPause call fails.
C8_ExitReflectsCall ==
    PlayPauseDone =>
        /\ result \in {0, 1}
        /\ result = 0 <=> (Issued("PlayPause") /\ ~call_error)

\* C8 as amended: play-pause exits 1 exactly when no target is resolved and 0
\* whenever it issued PlayPause to a target, whether or not that call failed.
C8_ExitReflectsTarget ==
    PlayPauseDone =>
        /\ result \in {0, 1}
        /\ result = 0 <=> Issued("PlayPause")
        /\ Issued("PlayPause") <=> (argc > 2 \/ players # <<>>)

\* the PlayPause call failed and play-pause exited 0
C8_Witness ==
    /\ PlayPauseDone
    /\ call_error
    /\ result = 0

ControlCommand == argv.command \in {"play-pause", "set-position", "set-position-percent"}

\* C9 as stated: when the name listing fails, get and the control commands
\* without a player id exit non-zero, and a listen tick builds [] and goes on.
C9_ListingFailureFails ==
    listing.error =>
        /\ (argv.command # "listen" /\ pc = "exit") => result # 0
        /\ argv.command = "listen" =>
             (pc = "timer" /\ ticks[Len(ticks)].json = <<"[", "]">>)

\* C9 as amended: when the name listing fails, get prints [] and exits 0, a
\* control command without a player id exits 1 having issued nothing else,
\* and a listen tick builds [] and goes on.
C9_ListingFailure ==
    listing.error =>
        /\ pc # "crashed"
        /\ players = <<>>
        /\ calls[Len(calls)] = ListNamesCall
        /\ argv.command = "get" =>
             (pc = "exit" /\ result = 0 /\ out = <<(<<"[", "]">>)>>)
        /\ ControlCommand => (pc = "exit" /\ result = 1 /\ calls = <<ListNamesCall>>)
        /\ argv.command = "listen" =>
             (pc = "timer" /\ ticks[Len(ticks)].json = <<"[", "]">>)

\* the name listing failed and get exited 0
C9_Witness ==
    /\ listing.error
    /\ argv.command = "get"
    /\ pc = "exit"
    /\ result = 0

\* C10: get prints exactly [] when find_players returns no player.
C10_EmptyArray ==
    (argv.command = "get" /\ pc = "exit" /\ players = <<>>) =>
        out = <<(<<"[", "]">>)>>

\* get ended with no player ranked although a Stopped player was registered
C10_Witness ==
    /\ argv.command = "get"
    /\ pc = "exit"
    /\ players = <<>>
    /\ \E n \in Range(listing.names) : Discovered(n, "Stopped")

\* the value a Position or length variant reports, signed or unsigned
Reported(v) == IF v.type = "t" THEN ToInt64(v.val) ELSE v.val

\* the Seek calls in the log
SeekCalls == SelectSeq(calls, LAMBDA c : c.call = "Seek")

\* the player a control command resolved: its argument, else the first ranked
Target ==
    IF argc > (IF argv.command = "play-pause" THEN 2 ELSE 3)
    THEN argv.args[1] ELSE players[1]

\* C11: a successful set-position issues exactly one Seek call, to the
\* resolved player, with the target minus the position the player reports.
C11_SeekOffset ==
    (argv.command = "set-position" /\ pc = "exit" /\ result = 0
        /\ pview[1].Position.type \in {"x", "t"}) =>
        SeekCalls = <<SeekCall(Target,
                               atoll(argv.args[Len(argv.args)])
                               - Reported(pview[1].Position))>>

\* C12: a successful set-position-percent issues exactly one Seek call, to
\* the resolved player, with floor(percentage * length / 100) minus the
\* position the player reports.
C12_PercentOffset ==
    (argv.command = "set-position-percent" /\ pc = "exit" /\ result = 0
        /\ pview[1].Position.type \in {"x", "t"}) =>
        SeekCalls = <<SeekCall(Target,
                               (atof_tenths(PercentArg)
                                * LookupLength(pview[1].Metadata).val) \div 1000
                               - Reported(pview[1].Position))>>

\* C12 for a signed Position only: the rounding of line 240 alone
C12_PercentOffsetSigned ==
    (argv.command = "set-position-percent" /\ pc = "exit" /\ result = 0
        /\ pview[1].Position.type = "x") =>
        SeekCalls[Len(SeekCalls)].value =
            (atof_tenths(PercentArg)
             * LookupLength(pview[1].Metadata).val) \div 1000
            - pview[1].Position.val

\* whether the command line names the player
ExplicitPlayer == argc > (IF argv.command = "play-pause" THEN 2 ELSE 3)

\* whether main runs find_players to resolve the player
DefaultPlayer ==
    IF argv.command = "play-pause" THEN argc <= 2 ELSE argc = 3

\* the calls of the discovery pass that main made
DiscoveryCalls == find_players(listing, dview, FALSE).calls

\* the calls main made after the discovery pass
HandlerCalls == SubSeq(calls, Len(DiscoveryCalls) + 1, Len(calls))

\* with an explicit player id there is no listing call and every call goes to it
ExplicitTarget ==
    /\ calls # <<>>
    /\ \A i \in 1..Len(calls) :
         calls[i].call # "ListNames" /\ calls[i].dest = argv.args[1]

\* with a non-empty ranking the handler's calls all go to its first element
FirstRankedTarget ==
    /\ Len(calls) > Len(DiscoveryCalls)
    /\ SubSeq(calls, 1, Len(DiscoveryCalls)) = DiscoveryCalls
    /\ \A i \in 1..Len(HandlerCalls) : HandlerCalls[i].dest = players[1]

\* C13 as stated: with an empty ranking the command exits 1 and no call or
\* property read went to any player, the discovery pass's included.
C13_NoPlayerTouched ==
    (ControlCommand /\ pc = "exit") =>
        /\ ExplicitPlayer => ExplicitTarget
        /\ (DefaultPlayer /\ players # <<>>) => FirstRankedTarget
        /\ (DefaultPlayer /\ players = <<>>) =>
              /\ result = 1
              /\ \A i \in 1..Len(calls) : calls[i].call = "ListNames"

\* C13: when a control command returns: with an explicit player id no listing
\* call was made and every call went to that id; without one, the handler's
\* calls all went to the first element of the ranking when it is non-empty,
\* and when it is empty the exit code is 1 and the only calls made are those
\* of the discovery pass (no handler proxy, property read or method call).
C13_TargetResolution ==
    (ControlCommand /\ pc = "exit") =>
        /\ ExplicitPlayer => ExplicitTarget
        /\ (DefaultPlayer /\ players # <<>>) => FirstRankedTarget
        /\ (DefaultPlayer /\ players = <<>>) =>
              /\ result = 1
              /\ calls = DiscoveryCalls
              /\ ~Issued("PlayPause") /\ ~Issued("Seek")

\* a command without a player id has run its method call on the first of
\* two ranked players
C13_Witness ==
    /\ ControlCommand /\ pc = "exit" /\ DefaultPlayer
    /\ Len(players) = 2
    /\ calls[Len(calls)].call \in {"PlayPause", "Seek"}
    /\ calls[Len(calls)].dest = players[1]

\* a command without a player id has found players but none of them active
C13_WitnessEmpty ==
    /\ ControlCommand /\ pc = "exit" /\ DefaultPlayer
    /\ players = <<>> /\ result = 1
    /\ \E i \in 1..Len(calls) : calls[i].call = "GetProperty"

\* the string a variant reports, the default "" when it is absent or no string
StringOrDefault(v) == IF v.type = "s" THEN v.val ELSE ""

\* the count a variant reports, the default 0 when it is absent or no 64-bit
\* integer
CountOrDefault(v) == IF v.type \in {"x", "t"} THEN Reported(v) ELSE 0

\* the first artist a variant reports, the default "" when it is absent, no
\* list of strings or an empty one
ArtistOrDefault(v) ==
    IF v.type = "as" /\ Len(v.val) > 0 THEN v.val[1] ELSE ""

\* the entry of a Metadata value under key, Absent when Metadata is absent or
\* no dictionary
EntryOrAbsent(v, key) ==
    IF v.Metadata.type = "a{sv}" THEN v.Metadata.val[key] ELSE Absent

\* each field of record r is the value view v reports, or its default
FieldsFrom(r, v) ==
    /\ r.status = StringOrDefault(v.PlaybackStatus)
    /\ r.position = CountOrDefault(v.Position)
    /\ r.length = CountOrDefault(EntryOrAbsent(v, "mpris:length"))
    /\ r.title = StringOrDefault(EntryOrAbsent(v, "xesam:title"))
    /\ r.artist = ArtistOrDefault(EntryOrAbsent(v, "xesam:artist"))

\* C14: every proxy that aggregation opened has its record, whatever subset
\* of PlaybackStatus, Position, Metadata, mpris:length, xesam:title and
\* xesam:artist is absent or wrongly typed; each such field has its default
\* (0 or "") and every other field the value the player reports.
C14_FieldsIndependent ==
    /\ Len(snapshot) = Len(OkViews(aview))
    /\ \A i \in 1..Len(snapshot) : FieldsFrom(snapshot[i], OkViews(aview)[i])

\* C14 where nothing is wrongly typed: fields are absent or well typed
C14_AbsentOnly ==
    (/\ Len(snapshot) = Len(OkViews(aview))
     /\ \A i \in 1..Len(snapshot) : FieldsFrom(snapshot[i], OkViews(aview)[i]))
    \/ \E i \in 1..Len(aview) :
         /\ aview[i].ok
         /\ \/ aview[i].PlaybackStatus.type \notin {"absent", "s"}
            \/ aview[i].Metadata.type \notin {"absent", "a{sv}"}
            \/ EntryOrAbsent(aview[i], "xesam:title").type \notin {"absent", "s"}

\* get_players_json has returned to handle_get or to high_frequency_poll
PayloadBuilt ==
    /\ argv.command \in {"get", "listen"}
    /\ pc \in {"exit", "timer"}

\* the identities of the records of a Snapshot, in order
Identities(records) == [i \in 1..Len(records) |-> records[i].player_id]

\* C15: the Snapshot get_players_json built has exactly one record for each
\* identity find_players returned, in that order, also when a proxy could not
\* be opened during aggregation.
C15_OneRecordPerIdentity ==
    PayloadBuilt => Identities(snapshot) = players

\* C15 where every proxy of the aggregation opened
C15_AllProxiesOpened ==
    (PayloadBuilt /\ \A i \in 1..Len(aview) : aview[i].ok) =>
        Identities(snapshot) = players

\* a payload is an array: "[" first, "]" last, every record opened after "["
\* or one comma and closed before one comma or "]", and no comma elsewhere
WellFormed(json) ==
    /\ Len(json) >= 2
    /\ json[1] = "["
    /\ json[Len(json)] = "]"
    /\ \A i \in 2..Len(json) :
         /\ json[i] = "{" => json[i - 1] \in {"[", ","}
         /\ json[i] = "," => json[i - 1] = "}"
         /\ json[i] = "]" => json[i - 1] \in {"[", "}"}
         /\ json[i - 1] = "}" => json[i] \in {",", "]"}
    /\ \A i \in 2..(Len(json) - 1) : json[i] \notin {"[", "]"}

\* the payloads get_players_json has returned
Payloads == Range(out) \cup {ticks[i].json : i \in 1..Len(ticks)}

\* C16: every payload get_players_json returns is a well-formed array,
\* whichever proxies failed to open during aggregation.
C16_WellFormedArray == \A json \in Payloads : WellFormed(json)

\* C16 where the proxy of the last ranked player opened
C16_LastProxyOpened ==
    (PayloadBuilt /\ aview # <<>> /\ aview[Len(aview)].ok) =>
        WellFormed(json_str)

\* C17: in listen, under fair timer scheduling, every tick that starts runs
\* to completion and is followed by another, whatever the bus returns: the
\* count of completed ticks reaches every number (here up to MaxTicks).
C17_TicksRecur ==
    (argv.command = "listen") ~> (Len(ticks) = MaxTicks)

\* only a tick that ends the process in undefined behaviour stops the ticks
C17_TicksRecurOrCrash ==
    (argv.command = "listen") ~> (Len(ticks) = MaxTicks \/ pc = "crashed")

\* handle_listen never returns: main has no exit in listen
C17_NeverReturns == argv.command = "listen" => pc # "exit"

\* a non-negative signed 64-bit count
NonNegativeInt64(n) == n >= 0 /\ n <= INT64_MAX

\* C18: in every State Record position and length are non-negative signed
\* 64-bit counts, whatever signed or unsigned 64-bit value the player reports.
C18_NonNegativeCounts ==
    \A i \in 1..Len(snapshot) :
        /\ NonNegativeInt64(snapshot[i].position)
        /\ NonNegativeInt64(snapshot[i].length)

\* position and length are always within the signed 64-bit range
C18_SignedRange ==
    \A i \in 1..Len(snapshot) :
        /\ snapshot[i].position \in INT64_MIN..INT64_MAX
        /\ snapshot[i].length \in INT64_MIN..INT64_MAX

\* a tick of listen has completed and none is running
TickCompleted ==
    /\ argv.command = "listen"
    /\ pc = "timer"
    /\ ticks # <<>>

\* the held payload is the last line printed and the payload of the last tick
HeldIsLatest ==
    /\ out # <<>>
    /\ previous_json = <<out[Len(out)]>>
    /\ previous_json = <<ticks[Len(ticks)].json>>

\* a step that changes the held payload is the end of a tick that printed it
HeldChangesByEmission ==
    previous_json' # previous_json =>
        /\ Len(ticks') = Len(ticks) + 1
        /\ ticks'[Len(ticks')].emitted
        /\ out' = Append(out, ticks'[Len(ticks')].json)
        /\ previous_json' = <<ticks'[Len(ticks')].json>>

\* C19: in listen, after every completed tick previous_json equals the line
\* printed last and the payload built at that tick, and previous_json changes
\* only in a tick that prints.
C19_HeldPayload ==
    /\ [](TickCompleted => HeldIsLatest)
    /\ [][HeldChangesByEmission]_vars

\* three ticks built A, A, B: the second printed nothing, the third printed B,
\* which is held
C19_Witness ==
    /\ TickCompleted
    /\ Len(ticks) = 3
    /\ ~ticks[2].emitted
    /\ ticks[3].emitted
    /\ previous_json = <<ticks[3].json>>

====
